---- MODULE Spec2Model ----
(***************************************************************************)
(* A model of obinexus/as2_splicing:                                       *)
(*   - src/huffman_pheno_avl.py: LosslessGeneticAVL's Huffman codec        *)
(*     (build_phenotype_encoder, encode_phenotype, decode_phenotype) over  *)
(*     Python's heapq on HuffmanNode objects ordered by frequency;         *)
(*   - src/bio_governance_engine.py: GenomicDependencyGraph (add_gene,     *)
(*     resolve_dependencies) and the evolution loop of                     *)
(*     run_rift_simulation.                                                *)
(* The two programs share no state; each has its own specification         *)
(* (SpecCodec, SpecRift) over the variables it owns.                       *)
(***************************************************************************)
EXTENDS Integers, Sequences, FiniteSets, TLC

\* ------------------------------------------------------------- bounds
\* Largest number of entries of a frequency table.
MaxSyms == 4
\* Frequencies are drawn from 1..MaxFreq.
MaxFreq == 2
\* Longest phenotype (symbol sequence) handed to encode_phenotype.
MaxLen == 2
\* Longest string handed directly to decode_phenotype.
MaxBits == 3
\* Longest dependency list of a gene.
MaxDeps == 2

\* ------------------------------------------------------------- values
\* Python's None, as a trait and as a node reference.
None == "None"
NoNode == 0

\* Trait names.  A table's i-th inserted key is Trait(i): the code never
\* compares two trait names, so only positions and frequencies matter.
TraitNames == <<"a", "b", "c", "d", "e", "f", "g", "h">>
Trait(i) == TraitNames[i]

\* The characters of an encoded string: the two bits and one other character.
Chars == {"0", "1", "2"}

\* The exceptions the codec raises, by the condition each one reports:
\* heap[0] on the empty heap of an empty table (line 40), codes[trait] for a
\* trait without a code (line 95), None.trait in the decode loop (line 109).
EmptyAlphabet == "IndexError"
UnknownSymbol == "KeyError"
AttributeError == "AttributeError"

\* dict(): the function with the empty domain.
EmptyDict == [x \in {} |-> <<>>]

VARIABLES
  \* --- codec (src/huffman_pheno_avl.py)
  trait_frequencies,  \* the dict given to the call, as its items() in order
  nodes,              \* the HuffmanNode objects allocated so far, by identity
  heap,               \* the heap list of build_phenotype_encoder (node ids)
  codes,              \* the codes dict
  root,               \* the tree returned (a node id), NoNode before
  phenotype,          \* phenotype_traits given to encode_phenotype
  encoded,            \* what encode_phenotype returned
  encoded_str,        \* the string given to decode_phenotype
  decoded,            \* what decode_phenotype returned
  current_node,       \* decode_phenotype's cursor when its loop ended
  err,                \* the exception the last call raised, or "none"
  returned,           \* whether the last call reached its return statement
  pc,                 \* position of the codec script
  \* --- resolver (src/bio_governance_engine.py)
  graph,              \* graph.nodes: gene id -> GeneNode
  genome,             \* the strain's acquired gene ids
  step_gene_id,       \* the loop variable of the evolution loop
  can_evolve,         \* the resolver's last answer in the loop
  rpc                 \* position of run_rift_simulation

codecVars == <<trait_frequencies, nodes, heap, codes, root, phenotype, encoded,
               encoded_str, decoded, current_node, err, returned, pc>>
riftVars == <<graph, genome, step_gene_id, can_evolve, rpc>>
vars == <<trait_frequencies, nodes, heap, codes, root, phenotype, encoded,
          encoded_str, decoded, current_node, err, returned, pc,
          graph, genome, step_gene_id, can_evolve, rpc>>

\* ------------------------------------------------------------- heapq
\* HuffmanNode(trait, frequency)
HuffmanNode(trait, frequency) ==
  [trait |-> trait, frequency |-> frequency, left |-> NoNode, right |-> NoNode,
   code |-> <<>>]

\* Mutant of lt: the comparison reversed.
lt_reversed(ns, a, b) == ns[a].frequency > ns[b].frequency

\* HuffmanNode.__lt__ on two node ids
lt(ns, a, b) == ns[a].frequency < ns[b].frequency

\* heapq._siftdown(heap, startpos, pos); positions are 0-based as in heapq.
RECURSIVE siftdown_loop(_, _, _, _, _)
siftdown_loop(ns, h, startpos, pos, newitem) ==
  IF pos > startpos
  THEN LET parentpos == (pos - 1) \div 2
           parent == h[parentpos + 1]
       IN IF lt(ns, newitem, parent)
          THEN siftdown_loop(ns, [h EXCEPT ![pos + 1] = parent], startpos,
                             parentpos, newitem)
          ELSE [h EXCEPT ![pos + 1] = newitem]
  ELSE [h EXCEPT ![pos + 1] = newitem]

siftdown(ns, h, startpos, pos) == siftdown_loop(ns, h, startpos, pos, h[pos + 1])

\* The child-bubbling loop of heapq._siftup: the heap and the final pos.
RECURSIVE siftup_loop(_, _, _, _)
siftup_loop(ns, h, pos, childpos) ==
  IF childpos < Len(h)
  THEN LET rightpos == childpos + 1
           c == IF rightpos < Len(h) /\ ~lt(ns, h[childpos + 1], h[rightpos + 1])
                THEN rightpos ELSE childpos
       IN siftup_loop(ns, [h EXCEPT ![pos + 1] = h[c + 1]], c, 2 * c + 1)
  ELSE [heap |-> h, pos |-> pos]

\* The tail of heapq._siftup: newitem is put at the leaf position r.pos the
\* loop ended at and bubbled up by _siftdown(heap, startpos, pos).
siftup_place(ns, r, startpos, newitem) ==
  siftdown(ns, [r.heap EXCEPT ![r.pos + 1] = newitem], startpos, r.pos)

\* heapq._siftup(heap, pos)
siftup(ns, h, pos) ==
  siftup_place(ns, siftup_loop(ns, h, pos, 2 * pos + 1), pos, h[pos + 1])

\* heapq.heapify(x): for i in reversed(range(n // 2)): _siftup(x, i)
RECURSIVE heapify_from(_, _, _)
heapify_from(ns, h, i) ==
  IF i < 0 THEN h ELSE heapify_from(ns, siftup(ns, h, i), i - 1)

heapify(ns, h) == heapify_from(ns, h, (Len(h) \div 2) - 1)

\* heapq.heappop(heap) on a non-empty heap: the item and the heap left.
heappop(ns, h) ==
  LET lastelt == h[Len(h)]
      rest == SubSeq(h, 1, Len(h) - 1)
  IN IF rest # <<>>
     THEN [item |-> rest[1], heap |-> siftup(ns, [rest EXCEPT ![1] = lastelt], 0)]
     ELSE [item |-> lastelt, heap |-> rest]

\* heapq.heappush(heap, item)
heappush(ns, h, item) == siftdown(ns, Append(h, item), 0, Len(h))

\* ------------------------------------------------- build_phenotype_encoder
\* Line 27: one HuffmanNode per item of the dict, in items() order (the
\* first n items).
RECURSIVE nodes_of_items(_, _)
nodes_of_items(table, n) ==
  IF n = 0
  THEN <<>>
  ELSE Append(nodes_of_items(table, n - 1),
              HuffmanNode(table[n].trait, table[n].frequency))

initial_nodes(table) == nodes_of_items(table, Len(table))

\* Line 27: the list holding those nodes, in the same order (ids 1..n).
RECURSIVE list_of_nodes(_)
list_of_nodes(n) == IF n = 0 THEN <<>> ELSE Append(list_of_nodes(n - 1), n)

\* Lines 27-28: the list of the nodes, heapified.
initial_heap(table) == heapify(initial_nodes(table), list_of_nodes(Len(table)))

\* Lines 34-36: the merged node of left and right.
merged_node(ns, left, right) ==
  [HuffmanNode(None, ns[left].frequency + ns[right].frequency)
     EXCEPT !.left = left, !.right = right]

\* Line 37: heappush(heap, merged), merged being the newest node of ns2.
push_merged(ns2, h) == [nodes |-> ns2, heap |-> heappush(ns2, h, Len(ns2))]

\* Lines 32-37, given left and the heap after the first pop, and the second
\* pop p2 (right and the heap after it).
merge_popped(ns, left, p2) ==
  push_merged(Append(ns, merged_node(ns, left, p2.item)), p2.heap)

\* Lines 32-37 after the first pop p1.
merge_after_pop(ns, p1) == merge_popped(ns, p1.item, heappop(ns, p1.heap))

\* Lines 31-37, one iteration of the merge loop on a heap of two or more.
merge_step(ns, h) == merge_after_pop(ns, heappop(ns, h))

\* Lines 30-37: while len(heap) > 1; m is [nodes, heap].
RECURSIVE merge_loop(_)
merge_loop(m) ==
  IF Len(m.heap) > 1 THEN merge_loop(merge_step(m.nodes, m.heap)) ELSE m

\* Lines 46-48 on st = [codes, nodes]: a node with a trait gets the code.
assign_code(st, node, current_code) ==
  IF st.nodes[node].trait # None
  THEN [codes |-> (st.nodes[node].trait :> current_code) @@ st.codes,
        nodes |-> [st.nodes EXCEPT ![node].code = current_code]]
  ELSE st

\* Lines 43-50: generate_codes(node, current_code), on st = [codes, nodes].
RECURSIVE generate_codes(_, _, _)
\* Line 49, then line 50 (codes_right_zero: a mutant of codes_right whose
\* right branch appends '0' as the left one does).
codes_left(st, node, current_code) ==
  generate_codes(st, st.nodes[node].left, Append(current_code, "0"))
codes_right_zero(st, node, current_code) ==
  generate_codes(st, st.nodes[node].right, Append(current_code, "0"))
codes_right(st, node, current_code) ==
  generate_codes(st, st.nodes[node].right, Append(current_code, "1"))
generate_codes(st, node, current_code) ==
  IF node = NoNode
  THEN st
  ELSE codes_right(codes_left(assign_code(st, node, current_code), node,
                              current_code), node, current_code)

\* Line 53: return codes, root.
build_result(g, r) ==
  [err |-> "none", codes |-> g.codes, root |-> r, nodes |-> g.nodes]

\* Mutant of finish_build: an empty heap yields an empty result, no exception.
finish_build_empty_ok(ns, h) ==
  IF h = <<>>
  THEN [err |-> "none", codes |-> EmptyDict, root |-> NoNode, nodes |-> ns]
  ELSE build_result(generate_codes([codes |-> EmptyDict, nodes |-> ns], h[1], <<>>),
                    h[1])

\* Lines 39-53 on the heap the merge loop left: heap[0] raises IndexError on
\* an empty list; otherwise the codes and the root are returned.
finish_build(ns, h) ==
  IF h = <<>>
  THEN [err |-> EmptyAlphabet, codes |-> EmptyDict, root |-> NoNode, nodes |-> ns]
  ELSE build_result(generate_codes([codes |-> EmptyDict, nodes |-> ns], h[1], <<>>),
                    h[1])

finish_merged(m) == finish_build(m.nodes, m.heap)

\* Lines 25-53, the whole call.
build_phenotype_encoder(table) ==
  finish_merged(merge_loop([nodes |-> initial_nodes(table),
                            heap |-> initial_heap(table)]))

\* ------------------------------------------------- encode / decode
\* Mutant of join_codes: a trait without a code is skipped (codes.get(trait, '')).
RECURSIVE join_codes_skip(_, _, _, _)
join_codes_skip(cs, traits, i, acc) ==
  IF i > Len(traits)
  THEN [err |-> "none", encoded |-> acc]
  ELSE IF traits[i] \notin DOMAIN cs
       THEN join_codes_skip(cs, traits, i + 1, acc)
       ELSE join_codes_skip(cs, traits, i + 1, acc \o cs[traits[i]])

\* Line 95: ''.join(codes[trait] for trait in phenotype_traits); codes[trait]
\* raises KeyError for a trait the dict does not hold.
RECURSIVE join_codes(_, _, _, _)
join_codes(cs, traits, i, acc) ==
  IF i > Len(traits)
  THEN [err |-> "none", encoded |-> acc]
  ELSE IF traits[i] \notin DOMAIN cs
       THEN [err |-> UnknownSymbol, encoded |-> <<>>]
       ELSE join_codes(cs, traits, i + 1, acc \o cs[traits[i]])

\* Line 96: return encoded, codes (nothing when the join raised).
encode_result(j, cs) ==
  [err |-> j.err, encoded |-> j.encoded,
   codes |-> IF j.err = "none" THEN cs ELSE EmptyDict]

\* Lines 95-96 on the result b of line 94's build, whose exception propagates.
encode_with(b, phenotype_traits) ==
  IF b.err # "none"
  THEN [err |-> b.err, encoded |-> <<>>, codes |-> EmptyDict]
  ELSE encode_result(join_codes(b.codes, phenotype_traits, 1, <<>>), b.codes)

\* Lines 92-96.
encode_phenotype(phenotype_traits, table) ==
  encode_with(build_phenotype_encoder(table), phenotype_traits)

\* Lines 103-111: the loop over the characters. '0' goes left, every other
\* character goes right; current_node.trait on None raises AttributeError.
RECURSIVE decode_loop(_, _, _, _, _, _)
decode_loop(ns, tree, s, i, cur, out) ==
  IF i > Len(s)
  THEN [err |-> "none", decoded |-> out, current_node |-> cur]
  ELSE LET nxt == IF s[i] = "0" THEN ns[cur].left ELSE ns[cur].right
       IN IF nxt = NoNode
          THEN [err |-> AttributeError, decoded |-> <<>>, current_node |-> nxt]
          ELSE IF ns[nxt].trait # None
               THEN decode_loop(ns, tree, s, i + 1, tree, Append(out, ns[nxt].trait))
               ELSE decode_loop(ns, tree, s, i + 1, nxt, out)

\* Lines 98-113.
decode_phenotype(ns, s, huffman_tree) ==
  decode_loop(ns, huffman_tree, s, 1, huffman_tree, <<>>)

\* ------------------------------------------------- inputs of the codec
SeqsUpTo(S, n) == UNION {[1..k -> S] : k \in 0..n}

\* Frequency tables: 0..MaxSyms entries, keys Trait(1), Trait(2), ... in
\* insertion order, each frequency in 1..MaxFreq.
Tables ==
  {[i \in DOMAIN f |-> [trait |-> Trait(i), frequency |-> f[i]]] :
     f \in SeqsUpTo(1..MaxFreq, MaxSyms)}

Alphabet(table) == {table[i].trait : i \in DOMAIN table}

\* Phenotypes for a table: its own traits and one trait it does not hold.
Phenotypes(table) ==
  SeqsUpTo({Trait(i) : i \in 1..(Len(table) + 1)}, MaxLen)

BitStrings == SeqsUpTo(Chars, MaxBits)

\* ------------------------------------------------- resolver
GeneIds == {"g01", "g02", "mecA"}

\* Dependency lists: up to MaxDeps distinct ids.
DepLists ==
  {d \in SeqsUpTo(GeneIds, MaxDeps) : \A i, j \in DOMAIN d : i # j => d[i] # d[j]}

\* GeneNode, by the fields the resolver and the loop's guard read (name and
\* resistance_factor only feed the governor's log lines).
GeneNode(id, dependencies) == [id |-> id, dependencies |-> dependencies]

\* Mutant of deps_present: the loop returns after its first iteration.
deps_present_first(dependencies, i, strain_genome) ==
  IF i > Len(dependencies)
  THEN TRUE
  ELSE dependencies[i] \in strain_genome

\* Lines 56-60: the loop over target.dependencies.
RECURSIVE deps_present(_, _, _)
deps_present(dependencies, i, strain_genome) ==
  IF i > Len(dependencies)
  THEN TRUE
  ELSE IF dependencies[i] \notin strain_genome
       THEN FALSE
       ELSE deps_present(dependencies, i + 1, strain_genome)

\* Mutant of resolve_dependencies: no check that the target is in the catalog.
resolve_unchecked(ns, strain_genome, target_gene_id) ==
  IF target_gene_id \notin DOMAIN ns
  THEN TRUE
  ELSE deps_present(ns[target_gene_id].dependencies, 1, strain_genome)

\* Lines 45-60: GenomicDependencyGraph.resolve_dependencies.
resolve_dependencies(ns, strain_genome, target_gene_id) ==
  IF target_gene_id \notin DOMAIN ns
  THEN FALSE
  ELSE deps_present(ns[target_gene_id].dependencies, 1, strain_genome)

\* ------------------------------------------------- initial states
InitRiftVars ==
  /\ graph = [x \in {} |-> GeneNode(x, <<>>)]
  /\ genome = {}
  /\ step_gene_id = None
  /\ can_evolve = FALSE
  /\ rpc = "setup"

InitCodecVars(table) ==
  /\ trait_frequencies = table
  /\ nodes = <<>>
  /\ heap = <<>>
  /\ codes = EmptyDict
  /\ root = NoNode
  /\ phenotype = <<>>
  /\ encoded = <<>>
  /\ encoded_str = <<>>
  /\ decoded = <<>>
  /\ current_node = NoNode
  /\ err = "none"
  /\ returned = FALSE
  /\ pc = "idle"

\* ------------------------------------------------- codec actions
\* build_phenotype_encoder, lines 27-28.
BuildStart ==
  /\ pc = "idle"
  /\ nodes' = initial_nodes(trait_frequencies)
  /\ heap' = initial_heap(trait_frequencies)
  /\ pc' = "merge"
  /\ UNCHANGED riftVars
  /\ UNCHANGED <<trait_frequencies, codes, root, phenotype, encoded, encoded_str,
                 decoded, current_node, err, returned>>

\* One iteration of the while loop, lines 30-37.
MergeStep ==
  /\ pc = "merge"
  /\ Len(heap) > 1
  /\ \E m \in {merge_step(nodes, heap)} :
        /\ nodes' = m.nodes
        /\ heap' = m.heap
  /\ UNCHANGED riftVars
  /\ UNCHANGED <<trait_frequencies, codes, root, phenotype, encoded, encoded_str,
                 decoded, current_node, err, returned, pc>>

\* Loop exit and lines 39-53.
GenerateCodes ==
  /\ pc = "merge"
  /\ Len(heap) <= 1
  /\ \E b \in {finish_build(nodes, heap)} :
        /\ err' = b.err
        /\ codes' = b.codes
        /\ root' = b.root
        /\ nodes' = b.nodes
        /\ returned' = (b.err = "none")
        /\ pc' = IF b.err = "none" THEN "built" ELSE "raised"
  /\ UNCHANGED riftVars
  /\ UNCHANGED <<trait_frequencies, heap, phenotype, encoded, encoded_str,
                 decoded, current_node>>

\* decode_phenotype on the tree just built, with any string (lines 98-113).
Decode(s) ==
  /\ pc = "built"
  /\ \E d \in {decode_phenotype(nodes, s, root)} :
        /\ encoded_str' = s
        /\ err' = d.err
        /\ decoded' = d.decoded
        /\ current_node' = d.current_node
        /\ returned' = (d.err = "none")
  /\ pc' = "decoded"
  /\ UNCHANGED riftVars
  /\ UNCHANGED <<trait_frequencies, nodes, heap, codes, root, phenotype, encoded>>

\* encode_phenotype(phenotype, trait_frequencies), line 137.
Encode(traits) ==
  /\ pc = "idle"
  /\ \E e \in {encode_phenotype(traits, trait_frequencies)} :
        /\ phenotype' = traits
        /\ err' = e.err
        /\ encoded' = e.encoded
        /\ codes' = e.codes
        /\ returned' = (e.err = "none")
  /\ pc' = "encoded"
  /\ UNCHANGED riftVars
  /\ UNCHANGED <<trait_frequencies, nodes, heap, root, encoded_str, decoded,
                 current_node>>

\* Line 138: decode_phenotype(encoded, build_phenotype_encoder(...)[1]).
DecodeEncoded ==
  /\ pc = "encoded"
  /\ returned
  /\ \E b \in {build_phenotype_encoder(trait_frequencies)} :
     \E d \in {decode_phenotype(b.nodes, encoded, b.root)} :
        /\ nodes' = b.nodes
        /\ root' = b.root
        /\ encoded_str' = encoded
        /\ err' = d.err
        /\ decoded' = d.decoded
        /\ current_node' = d.current_node
        /\ returned' = (d.err = "none")
  /\ pc' = "checked"
  /\ UNCHANGED riftVars
  /\ UNCHANGED <<trait_frequencies, heap, codes, phenotype, encoded>>

InitCodec ==
  /\ \E table \in Tables : InitCodecVars(table)
  /\ InitRiftVars

NextCodec ==
  \/ BuildStart
  \/ MergeStep
  \/ GenerateCodes
  \/ \E s \in BitStrings : Decode(s)
  \/ \E traits \in Phenotypes(trait_frequencies) : Encode(traits)
  \/ DecodeEncoded

SpecCodec == InitCodec /\ [][NextCodec]_vars

\* ------------------------------------------------- resolver actions
\* graph.add_gene(gene), lines 41-43 (run_rift_simulation lines 118-120).
add_gene(gene) ==
  /\ rpc = "setup"
  /\ graph' = (gene.id :> gene) @@ graph
  /\ UNCHANGED codecVars
  /\ UNCHANGED <<genome, step_gene_id, can_evolve, rpc>>

\* Lines 123-129: the strain starts with an empty genome.
StartLoop ==
  /\ rpc = "setup"
  /\ genome' = {}
  /\ rpc' = "loop"
  /\ UNCHANGED codecVars
  /\ UNCHANGED <<graph, step_gene_id, can_evolve>>

\* Mutant of EvolveStep: genome.add runs whatever the resolver answered.
EvolveStepUngated(id) ==
  /\ rpc = "loop"
  /\ step_gene_id' = id
  /\ can_evolve' = resolve_dependencies(graph, genome, id)
  /\ genome' = genome \cup {id}
  /\ UNCHANGED codecVars
  /\ UNCHANGED <<graph, rpc>>

\* One iteration of the evolution loop, lines 131-145, for the next id of
\* evolution_steps.
EvolveStep(id) ==
  /\ rpc = "loop"
  /\ step_gene_id' = id
  /\ can_evolve' = resolve_dependencies(graph, genome, id)
  /\ genome' = IF resolve_dependencies(graph, genome, id)
               THEN genome \cup {id}
               ELSE genome
  /\ UNCHANGED codecVars
  /\ UNCHANGED <<graph, rpc>>

\* evolution_steps is exhausted, line 147.
Finish ==
  /\ rpc = "loop"
  /\ rpc' = "done"
  /\ UNCHANGED codecVars
  /\ UNCHANGED <<graph, genome, step_gene_id, can_evolve>>

InitRift ==
  /\ InitCodecVars(<<>>)
  /\ InitRiftVars

NextRift ==
  \/ \E id \in GeneIds, d \in DepLists : add_gene(GeneNode(id, d))
  \/ StartLoop
  \/ \E id \in GeneIds : EvolveStep(id)
  \/ Finish

SpecRift == InitRift /\ [][NextRift]_vars

\* ================================================= claims
Range(s) == {s[i] : i \in DOMAIN s}

IsPrefix(a, b) == Len(a) <= Len(b) /\ SubSeq(b, 1, Len(a)) = a

RECURSIVE SumFrequencies(_, _)
SumFrequencies(table, i) ==
  IF i > Len(table) THEN 0 ELSE table[i].frequency + SumFrequencies(table, i + 1)

\* The length of the codes of traits[1..i-1], concatenated.
RECURSIVE CodeOffset(_, _, _)
CodeOffset(cs, traits, i) ==
  IF i <= 1 THEN 0
  ELSE CodeOffset(cs, traits, i - 1) + Len(cs[traits[i - 1]])

\* The prerequisites of target are all in S, target being a catalog key.
CanActivate(S, target) ==
  /\ target \in DOMAIN graph
  /\ Range(graph[target].dependencies) \subseteq S

\* ---- C1: for every catalog, possessed set and target, resolve_dependencies
\* is true exactly when the target is a catalog key and each of its listed
\* prerequisites is in the possessed set; false for an id not in the catalog.
C1_ResolveIffPrerequisites ==
  \A S \in SUBSET GeneIds : \A target \in GeneIds :
    /\ resolve_dependencies(graph, S, target) = CanActivate(S, target)
    /\ target \notin DOMAIN graph => ~resolve_dependencies(graph, S, target)

\* The loop asked for a gene with two prerequisites and the resolver said yes.
C1_Witness ==
  /\ rpc = "loop"
  /\ step_gene_id \in DOMAIN graph
  /\ Len(graph[step_gene_id].dependencies) = 2
  /\ can_evolve

\* What C8 says of one step of run_rift_simulation.
C8_Step ==
  /\ genome \subseteq genome'
  /\ (rpc = "setup" /\ rpc' = "loop") => genome' = {}
  /\ genome' # genome =>
       /\ rpc = "loop"
       /\ can_evolve'
       /\ CanActivate(genome, step_gene_id')
       /\ genome' = genome \cup {step_gene_id'}
  /\ (rpc = "loop" /\ rpc' = "loop" /\ ~CanActivate(genome, step_gene_id')) =>
       (~can_evolve' /\ genome' = genome)

\* ---- C8: the evolution loop starts from the empty set; a step adds its id
\* only when the resolver returned true for it against the set before the
\* step; a step whose answer is false leaves the set unchanged; nothing is
\* ever removed.
C8_GatedMonotone == [][C8_Step]_vars

\* A refused step after two acquisitions.
C8_Witness ==
  /\ rpc = "loop"
  /\ Cardinality(genome) >= 2
  /\ ~can_evolve
  /\ step_gene_id \notin genome
  /\ step_gene_id \in DOMAIN graph

\* ---- C10: in every state of the evolution loop the possessed set holds
\* only catalog keys and is closed under direct prerequisites.
C10_GenomeClosed ==
  \A id \in genome :
    /\ id \in DOMAIN graph
    /\ Range(graph[id].dependencies) \subseteq genome

\* A chain of three: an acquired gene whose prerequisite has a prerequisite.
C10_Witness ==
  \E id \in genome : \E i \in DOMAIN graph[id].dependencies :
    /\ graph[id].dependencies[i] # id
    /\ graph[graph[id].dependencies[i]].dependencies # <<>>

\* ---- C3: the code table build_phenotype_encoder returns for a non-empty
\* table has exactly the table's symbols as keys, gives no two symbols the
\* same code, and no symbol's code is a prefix of another symbol's code.
C3_PrefixFree ==
  (pc = "built" \/ (pc = "encoded" /\ returned)) =>
    /\ DOMAIN codes = Alphabet(trait_frequencies)
    /\ \A x, y \in DOMAIN codes :
         x # y => (codes[x] # codes[y] /\ ~IsPrefix(codes[x], codes[y]))

\* A built table of three symbols or more with codes of different lengths.
C3_Witness ==
  /\ pc = "built"
  /\ Len(trait_frequencies) >= 3
  /\ \E x, y \in DOMAIN codes : Len(codes[x]) < Len(codes[y])

\* What C9 says of one step of build_phenotype_encoder.
C9_Step ==
  /\ (pc = "merge" /\ pc' = "merge" /\ heap' # heap) =>
       LET removed == Range(heap) \ Range(heap')
           added == Range(heap') \ Range(heap)
       IN /\ Cardinality(Range(heap)) = Len(heap)
          /\ Cardinality(removed) = 2
          /\ Cardinality(added) = 1
          /\ Len(heap') = Len(heap) - 1
          /\ \A r \in removed : \A k \in Range(heap) \ removed :
               nodes[k].frequency >= nodes[r].frequency
          /\ \A i \in DOMAIN nodes : nodes'[i] = nodes[i]
          /\ \A m \in added :
               /\ m \notin DOMAIN nodes
               /\ nodes'[m].trait = None
               /\ {nodes'[m].left, nodes'[m].right} = removed
               /\ nodes'[m].frequency =
                    nodes[nodes'[m].left].frequency + nodes[nodes'[m].right].frequency
  /\ (pc = "merge" /\ pc' = "built" /\ Len(trait_frequencies) >= 2) =>
       /\ Len(heap) = 1
       /\ root' = heap[1]
       /\ Len(nodes') - Len(trait_frequencies) = Len(trait_frequencies) - 1
       /\ nodes'[root'].frequency = SumFrequencies(trait_frequencies, 1)

\* ---- C9: each merge step over n >= 2 symbols removes two nodes no
\* remaining node has a frequency strictly below, and inserts one internal
\* node whose frequency is their sum and whose children are those two; the
\* loop ends after n-1 merges with one root whose frequency is the sum of all
\* input frequencies.
C9_MergeLowestTwo == [][C9_Step]_vars

\* A finished tree of four symbols whose root joins two merged nodes.
C9_Witness ==
  /\ pc = "built"
  /\ Len(trait_frequencies) = 4
  /\ nodes[nodes[root].left].trait = None
  /\ nodes[nodes[root].right].trait = None

\* ---- C6: with a code table (a non-empty frequency table), encode_phenotype
\* raises the unknown-symbol error and returns nothing when some symbol of
\* the sequence has no code; otherwise it returns the concatenation of the
\* symbols' codes in input order.
C6_EncodeUnknownOrConcat ==
  (pc = "encoded" /\ trait_frequencies # <<>>) =>
    LET cs == build_phenotype_encoder(trait_frequencies).codes
    IN IF \E i \in DOMAIN phenotype : phenotype[i] \notin DOMAIN cs
       THEN err = UnknownSymbol /\ ~returned /\ encoded = <<>> /\ codes = EmptyDict
       ELSE /\ err = "none"
            /\ returned
            /\ codes = cs
            /\ Len(encoded) = CodeOffset(cs, phenotype, Len(phenotype) + 1)
            /\ \A i \in DOMAIN phenotype :
                 SubSeq(encoded, CodeOffset(cs, phenotype, i) + 1,
                        CodeOffset(cs, phenotype, i + 1)) = cs[phenotype[i]]

\* A known symbol followed by an unknown one, on a table of three symbols.
C6_Witness ==
  /\ pc = "encoded"
  /\ Len(trait_frequencies) = 3
  /\ Len(phenotype) = 2
  /\ phenotype[1] \in Alphabet(trait_frequencies)
  /\ phenotype[2] \notin Alphabet(trait_frequencies)
  /\ err = UnknownSymbol

\* ---- C7: build_phenotype_encoder on an empty frequency table raises the
\* empty-alphabet error and returns neither a code table nor a tree.
C7_EmptyTableRaises ==
  trait_frequencies = <<>> =>
    /\ pc # "built"
    /\ pc \in {"raised", "encoded"} =>
         (err = EmptyAlphabet /\ ~returned /\ codes = EmptyDict /\ root = NoNode)

\* The build of the empty table has ended.
C7_Witness == pc = "raised" /\ trait_frequencies = <<>> /\ heap = <<>>

\* ---- C2 (as claimed): for any non-empty table and any sequence over its
\* alphabet, decoding the encoding with the tree of the same table yields
\* the sequence.
C2_RoundTrip ==
  pc = "checked" => (err = "none" /\ decoded = phenotype)

\* What holds of the code: the round trip on tables of two or more symbols.
RoundTripTwoOrMore ==
  (pc = "checked" /\ Len(trait_frequencies) >= 2) =>
    (err = "none" /\ decoded = phenotype)

\* ---- C4 (as claimed): for a table with the one symbol x, build succeeds, x
\* gets a non-empty code, [x, x] encodes to a non-empty string and decoding
\* it recovers [x, x].
C4_SingleSymbol ==
  Len(trait_frequencies) = 1 =>
    /\ pc # "raised"
    /\ pc = "built" => (err = "none" /\ codes[Trait(1)] # <<>>)
    /\ (pc \in {"encoded", "checked"} /\ phenotype = <<Trait(1), Trait(1)>>) =>
         (err = "none" /\ encoded # <<>>)
    /\ (pc = "checked" /\ phenotype = <<Trait(1), Trait(1)>>) =>
         decoded = <<Trait(1), Trait(1)>>

\* The loop of decode_phenotype ended away from the root: a strict prefix of
\* some code was left unconsumed.
MidTraversal == err = "none" /\ current_node # root

\* ---- C5 (as claimed): decode_phenotype ends in an error and returns no
\* sequence when its input holds a character other than "0" and "1", or
\* ends while the traversal is at an internal node.
C5_MalformedRejected ==
  (pc = "decoded" /\ (Range(encoded_str) \ {"0", "1"} # {} \/ MidTraversal)) =>
    (err # "none" /\ ~returned)

====
